---- MODULE Spec2Model ----
(***************************************************************************)
(* Model of the realtime relay server: the WebSocket server (wsServer.js), *)
(* the session manager (sessionManager.js), the OpenAI connection service  *)
(* (openaiService.js) and the client message dispatcher (wsHandler.js).    *)
(*                                                                         *)
(* Node runs every handler to completion; an async function suspends only  *)
(* at the handshake promise of createConnection.  Each action below is one *)
(* event-loop callback together with the promise continuations (micro-     *)
(* tasks) it triggers.                                                     *)
(*                                                                         *)
(* Transport semantics are those of the ws library (8.x): close() moves an *)
(* OPEN or CONNECTING socket to CLOSING, send() on a CLOSING or CLOSED     *)
(* socket without callback drops the frame silently, 'error' is always     *)
(* followed by 'close'.                                                    *)
(*                                                                         *)
(* Time is counted in liveness-check periods (30 s).  Date.now()-lastPong  *)
(* is kept as an age in periods, saturated one above the grace period.     *)
(***************************************************************************)
EXTENDS Integers, Sequences, FiniteSets, TLC

\* Number of client identifiers (accepted sockets / API caller ids).
MaxClients == 2
\* Number of createSession attempts that reach createConnection.
MaxAttempts == 2
\* Number of frames per client whose writes the wire history follows.
MaxFrames == 2
\* Longest PCM16 buffer of more than one sample, in samples.
MaxSamples == 2

\* Grace period of the liveness check, in check periods: 60000 ms / 30000 ms.
GraceIntervals == 2
\* Handshake bound of createConnection in check periods, rounded up:
\* a handshake of 10000 ms spans at most one 30000 ms tick.
ConnectTimeoutTicks == 1

ClientIds == 1..MaxClients
AttemptIds == 1..MaxAttempts
AgeCap == GraceIntervals + 1

VARIABLES
    server,          \* wsServer.server: "running" | "closed" (null)
    pingInterval,    \* wsServer.pingInterval is set
    pingDue,         \* the 30 s interval has elapsed and its callback is queued
    clients,         \* wsServer.clients: clientId -> [age]  (age of lastPong)
    nextClient,      \* next uuid handed out by handleConnection
    cws,             \* readyState of each client socket
    listening,       \* message/close/error/pong listeners attached to the socket
    sessions,        \* sessionManager.sessions: sessionId -> session
    clientToSession, \* sessionManager.clientToSession: clientId -> sessionId
    connections,     \* openaiService.connections: connectionId -> [clientId]
    uws,             \* readyState of each upstream socket
    msgHandler,      \* upstream sockets with the listener of setMessageHandler
    calls,           \* createSession activations: attempt -> [clientId, caller, status, ticks]
    nextAttempt,     \* next uuid pair (sessionId, connectionId) handed out
    wire,            \* history of the sockets: pings not yet answered, frames delivered by each client
                     \* socket, events written to each upstream socket
    last             \* the handler that ran last and what it emitted

vars == <<server, pingInterval, pingDue, clients, nextClient, cws, listening,
          sessions, clientToSession, connections, uws, msgHandler, calls,
          nextAttempt, wire, last>>

-----------------------------------------------------------------------------
(* Map helpers (JavaScript Map: set, delete). *)

Put(f, x, v) == [y \in DOMAIN f \cup {x} |-> IF y = x THEN v ELSE f[y]]
Remove(f, x) == [y \in DOMAIN f \ {x} |-> f[y]]
EmptyMap == [y \in {} |-> 0]

(* ws.close(): OPEN and CONNECTING sockets start closing; others unchanged. *)
WsClose(state) == IF state \in {"OPEN", "CONNECTING"} THEN "CLOSING" ELSE state

-----------------------------------------------------------------------------
(* The registry as a value: the maps of sessionManager and openaiService   *)
(* and the upstream sockets, so that teardown is a function on it.         *)

Reg == [sessions |-> sessions, clientToSession |-> clientToSession,
        connections |-> connections, uws |-> uws]

(* Faulty variant of closeConnection: the socket is closed, its record is  *)
(* left in the map.                                                        *)
closeConnectionKeepsRecord(R, connectionId) ==
    IF connectionId \in DOMAIN R.connections
    THEN [R EXCEPT !.uws[connectionId] = WsClose(@)]
    ELSE R

closeConnection(R, connectionId) ==
    IF connectionId \in DOMAIN R.connections
    THEN [R EXCEPT !.uws[connectionId] = WsClose(@),
                   !.connections = Remove(@, connectionId)]
    ELSE R

(* Faulty variant of closeSession: the client-to-session map is cleared.   *)
closeSessionClearsMap(R, sessionId) ==
    IF sessionId \notin DOMAIN R.sessions
    THEN R
    ELSE LET session == R.sessions[sessionId]
             R1 == closeConnection(R, session.openaiConnectionId)
         IN [R1 EXCEPT !.clientToSession = EmptyMap,
                       !.sessions = Remove(@, sessionId)]

closeSession(R, sessionId) ==
    IF sessionId \notin DOMAIN R.sessions
    THEN R
    ELSE LET session == R.sessions[sessionId]
             R1 == closeConnection(R, session.openaiConnectionId)
         IN [R1 EXCEPT !.clientToSession = Remove(@, session.clientId),
                       !.sessions = Remove(@, sessionId)]

closeClientSessions(R, clientId) ==
    IF clientId \in DOMAIN R.clientToSession
    THEN closeSession(R, R.clientToSession[clientId])
    ELSE R

(* Faulty variant of getClientSession: the first registered session,      *)
(* whoever owns it.                                                        *)
getClientSessionAny(clientId) ==
    IF DOMAIN sessions # {}
    THEN CHOOSE s \in DOMAIN sessions : \A t \in DOMAIN sessions : s <= t
    ELSE 0

getClientSession(clientId) ==
    IF clientId \in DOMAIN clientToSession /\ clientToSession[clientId] \in DOMAIN sessions
    THEN clientToSession[clientId]
    ELSE 0

(* closeClientSessions for each member of a set of clients, in Map order.  *)
RECURSIVE closeAll(_, _)
closeAll(R, cs) ==
    IF cs = {} THEN R
    ELSE LET c == CHOOSE x \in cs : \A y \in cs : x <= y
         IN closeAll(closeClientSessions(R, c), cs \ {c})

SetReg(R) ==
    /\ sessions' = R.sessions
    /\ clientToSession' = R.clientToSession
    /\ connections' = R.connections
    /\ uws' = R.uws

-----------------------------------------------------------------------------
(* Frames the server writes to a client socket. *)

NoBody == [type |-> "", id |-> 0]

EstablishedFrame(clientId) ==
    [type |-> "connection.established", code |-> "", event_id |-> 0,
     clientId |-> clientId, body |-> NoBody]

ErrorFrame(code, eventId) ==
    [type |-> "error", code |-> code, event_id |-> eventId,
     clientId |-> 0, body |-> NoBody]

(* ws.send(frame) on socket of client c: written only when the socket is OPEN. *)
Send(c, via, frame) ==
    IF cws[c] = "OPEN" THEN <<[to |-> c, via |-> via, frame |-> frame]>> ELSE <<>>

(* What a handler run is recorded as: op names the handler, client and    *)
(* att its arguments, res its result (-1: it threw to its caller), err the *)
(* error raised in it (thrown on when res = -1, caught otherwise), fault   *)
(* an exception or rejection nobody caught ("uncaughtException",           *)
(* "unhandledRejection", "unhandledErrorEvent"), msg the frame it got,     *)
(* out the frames it wrote to client sockets, up the events it wrote to    *)
(* upstream sockets, pinged and evicted the clients the liveness check     *)
(* pinged and evicted.                                                     *)
NoMsg == [syntax |-> "none", type |-> "", event_id |-> 0, audio |-> "", ref |-> 0]

Last(op, c, k) ==
    [op |-> op, client |-> c, att |-> k, res |-> 0, err |-> "", fault |-> "none",
     msg |-> NoMsg, out |-> <<>>, up |-> <<>>, pinged |-> {}, evicted |-> {},
     id |-> 0]

(* Nothing delivered, nothing written, no ping unanswered. *)
NoTraffic ==
    [delivered |-> [c \in ClientIds |-> 0], written |-> [k \in AttemptIds |-> <<>>],
     probes |-> {}]

-----------------------------------------------------------------------------
Init ==
    /\ server = "running"
    /\ pingInterval = TRUE
    /\ pingDue = FALSE
    /\ clients = EmptyMap
    /\ nextClient = 1
    /\ cws = [c \in ClientIds |-> "NONE"]
    /\ listening = [c \in ClientIds |-> FALSE]
    /\ sessions = EmptyMap
    /\ clientToSession = EmptyMap
    /\ connections = EmptyMap
    /\ uws = [k \in AttemptIds |-> "NONE"]
    /\ msgHandler = {}
    /\ calls = EmptyMap
    /\ nextAttempt = 1
    /\ wire = NoTraffic
    /\ last = Last("init", 0, 0)

-----------------------------------------------------------------------------
(* sessionManager.createSession and openaiService.createConnection.        *)

(* Faulty variant of hasSession: the check for an existing session is missing. *)
hasSessionNever(clientId) == FALSE

hasSession(clientId) == clientId \in DOMAIN clientToSession

NewSession(sessionId, clientId, connectionId) ==
    [id |-> sessionId, clientId |-> clientId, openaiConnectionId |-> connectionId,
     state |-> [sessionId |-> 0, conversationId |-> 0]]

(* createConnection up to its await: the socket is created and the record  *)
(* is stored in the map before the handshake completes.                    *)
registerConnection(conns, connectionId, clientId) ==
    Put(conns, connectionId, [clientId |-> clientId])

(* The part of createSession that runs after createConnection resolved.    *)
storeSession(R, sessionId, clientId, connectionId) ==
    [R EXCEPT !.sessions = Put(@, sessionId, NewSession(sessionId, clientId, connectionId)),
              !.clientToSession = Put(@, clientId, sessionId)]

(* Faulty variant of AcceptOk: the established frame is sent twice.        *)
AcceptOkGreetsTwice(c, op, k, res) ==
    /\ listening' = [listening EXCEPT ![c] = TRUE]
    /\ last' = [Last(op, c, k) EXCEPT !.res = res,
                  !.out = Send(c, "accept", EstablishedFrame(c))
                          \o Send(c, "accept", EstablishedFrame(c))]

(* The part of handleConnection after createSession resolved (try block).  *)
AcceptOk(c, op, k, res) ==
    /\ listening' = [listening EXCEPT ![c] = TRUE]
    /\ last' = [Last(op, c, k) EXCEPT !.res = res,
                  !.out = Send(c, "accept", EstablishedFrame(c))]

(* Faulty variant of AcceptFail: the catch block closes and unregisters    *)
(* the client without sending the error frame.                             *)
AcceptFailSilent(c, op, k) ==
    /\ last' = [Last(op, c, k) EXCEPT !.res = -1]
    /\ cws' = [cws EXCEPT ![c] = WsClose(@)]
    /\ clients' = Remove(clients, c)
    /\ UNCHANGED listening

(* The catch block of handleConnection. *)
AcceptFail(c, op, k) ==
    /\ last' = [Last(op, c, k) EXCEPT !.res = -1,
                  !.out = Send(c, "accept", ErrorFrame("initialization_failed", 0))]
    /\ cws' = [cws EXCEPT ![c] = WsClose(@)]
    /\ clients' = Remove(clients, c)
    /\ UNCHANGED listening

(* createSession up to its first suspension, for caller "server" or "api". *)
(* Yields the existing session (res > 0) or suspends in the handshake.     *)
CreateSessionBegin(c, caller) ==
    IF hasSession(c)
    THEN /\ UNCHANGED <<sessions, clientToSession, connections, uws, msgHandler,
                        calls, nextAttempt>>
    ELSE /\ nextAttempt <= MaxAttempts
         /\ connections' = registerConnection(connections, nextAttempt, c)
         /\ uws' = [uws EXCEPT ![nextAttempt] = "CONNECTING"]
         /\ calls' = Put(calls, nextAttempt,
                         [clientId |-> c, caller |-> caller, status |-> "pending", ticks |-> 0])
         /\ nextAttempt' = nextAttempt + 1
         /\ UNCHANGED <<sessions, clientToSession, msgHandler>>

(* wsServer.handleConnection: a client socket is accepted. *)
HandleConnection ==
    /\ server = "running"
    /\ nextClient <= MaxClients
    /\ LET c == nextClient IN
        /\ nextClient' = c + 1
        /\ CreateSessionBegin(c, "server")
        /\ IF hasSession(c)
           THEN /\ clients' = Put(clients, c, [age |-> 0])
                /\ cws' = [cws EXCEPT ![c] = "OPEN"]
                /\ listening' = [listening EXCEPT ![c] = TRUE]
                /\ last' = [Last("handleConnection", c, 0) EXCEPT
                              !.res = clientToSession[c],
                              !.out = <<[to |-> c, via |-> "accept",
                                         frame |-> EstablishedFrame(c)]>>]
           ELSE /\ clients' = Put(clients, c, [age |-> 0])
                /\ cws' = [cws EXCEPT ![c] = "OPEN"]
                /\ last' = Last("handleConnection", c, nextAttempt)
                /\ UNCHANGED listening
    /\ UNCHANGED <<wire, server, pingInterval, pingDue>>

(* The handshake promise of attempt k resolves: createConnection returns,  *)
(* createSession attaches the message handler and stores the session, and  *)
(* the caller continues.                                                   *)
ResolveCall(k, op) ==
    LET c == calls[k].clientId IN
    /\ calls' = [calls EXCEPT ![k].status = "ok", ![k].ticks = 0]
    /\ msgHandler' = IF k \in DOMAIN connections THEN msgHandler \cup {k} ELSE msgHandler
    /\ sessions' = storeSession(Reg, k, c, k).sessions
    /\ clientToSession' = storeSession(Reg, k, c, k).clientToSession
    /\ IF calls[k].caller = "server"
       THEN AcceptOk(c, op, k, k) /\ UNCHANGED <<clients, cws>>
       ELSE /\ last' = [Last(op, c, k) EXCEPT !.res = k]
            /\ UNCHANGED <<clients, cws, listening>>

(* Faulty variant of RejectCall: createSession stores the session although *)
(* the handshake failed, before its caller's catch block runs.             *)
RejectCallStoresSession(k, op) ==
    LET c == calls[k].clientId IN
    /\ calls' = [calls EXCEPT ![k].status = "failed", ![k].ticks = 0]
    /\ UNCHANGED connections
    /\ sessions' = storeSession(Reg, k, c, k).sessions
    /\ clientToSession' = storeSession(Reg, k, c, k).clientToSession
    /\ IF calls[k].caller = "server"
       THEN AcceptFail(c, op, k)
       ELSE /\ last' = [Last(op, c, k) EXCEPT !.res = -1]
            /\ UNCHANGED <<clients, cws, listening>>
    /\ UNCHANGED msgHandler

(* The handshake promise of attempt k rejects: createConnection and        *)
(* createSession log and rethrow, the caller's catch block runs.           *)
RejectCall(k, op) ==
    LET c == calls[k].clientId IN
    /\ calls' = [calls EXCEPT ![k].status = "failed", ![k].ticks = 0]
    /\ UNCHANGED connections
    /\ IF calls[k].caller = "server"
       THEN AcceptFail(c, op, k)
       ELSE /\ last' = [Last(op, c, k) EXCEPT !.res = -1]
            /\ UNCHANGED <<clients, cws, listening>>
    /\ UNCHANGED <<sessions, clientToSession, msgHandler>>

(* 'open' on upstream socket k. *)
UpstreamOpen(k) ==
    /\ uws[k] = "CONNECTING"
    /\ uws' = [uws EXCEPT ![k] = "OPEN"]
    /\ IF calls[k].status = "pending"
       THEN ResolveCall(k, "upstreamOpen") /\ UNCHANGED connections
       ELSE /\ last' = Last("upstreamOpen", calls[k].clientId, k)
            /\ UNCHANGED <<clients, cws, listening, sessions, clientToSession,
                           connections, msgHandler, calls>>
    /\ UNCHANGED <<wire, server, pingInterval, pingDue, nextClient, nextAttempt>>

(* 'error' on upstream socket k before it opened; the socket then closes.  *)
UpstreamConnectError(k) ==
    /\ uws[k] = "CONNECTING"
    /\ uws' = [uws EXCEPT ![k] = "CLOSED"]
    /\ IF calls[k].status = "pending"
       THEN RejectCall(k, "upstreamConnectError")
       ELSE /\ last' = Last("upstreamConnectError", calls[k].clientId, k)
            /\ UNCHANGED <<clients, cws, listening, sessions, clientToSession,
                           connections, msgHandler, calls>>
    /\ UNCHANGED <<wire, server, pingInterval, pingDue, nextClient, nextAttempt>>

(* The 10 s timer of createConnection fires while the promise is pending.  *)
(* The socket is left as it is and may still open later.                   *)
ConnectTimeout(k) ==
    /\ k \in DOMAIN calls
    /\ calls[k].status = "pending"
    /\ RejectCall(k, "connectTimeout")
    /\ UNCHANGED <<wire, server, pingInterval, pingDue, nextClient, nextAttempt, uws>>

(* The upstream service closes socket k, or a closing handshake ends.      *)
(* No 'close' listener is attached: nothing else changes.                  *)
UpstreamClose(k) ==
    /\ uws[k] \in {"OPEN", "CLOSING"}
    /\ uws' = [uws EXCEPT ![k] = "CLOSED"]
    /\ last' = Last("upstreamClose", 0, k)
    /\ UNCHANGED <<wire, server, pingInterval, pingDue, clients, nextClient, cws, listening,
                   sessions, clientToSession, connections, msgHandler, calls, nextAttempt>>

-----------------------------------------------------------------------------
(* wsServer: disconnect, error, pong, liveness check, close.               *)

(* Faulty variant of closeServer: only the first client of the map is     *)
(* closed and removed by a call.                                           *)
closeServerFirstOnly(R, cl) ==
    IF DOMAIN cl = {} THEN [reg |-> R, clients |-> cl]
    ELSE LET c == CHOOSE x \in DOMAIN cl : \A y \in DOMAIN cl : x <= y
         IN [reg |-> closeClientSessions(R, c), clients |-> Remove(cl, c)]

(* Faulty variant of handleClientDisconnect: closeClientSessions is not called. *)
handleClientDisconnectKeepsSession(R, cl, clientId) ==
    [reg |-> R, clients |-> Remove(cl, clientId)]

handleClientDisconnect(R, cl, clientId) ==
    [reg |-> closeClientSessions(R, clientId), clients |-> Remove(cl, clientId)]

(* handleClientError only logs. *)
handleClientError(R, cl, clientId) ==
    [reg |-> R, clients |-> cl]

(* 'close' on client socket c. *)
ClientClose(c) ==
    /\ cws[c] \in {"OPEN", "CLOSING"}
    /\ cws' = [cws EXCEPT ![c] = "CLOSED"]
    /\ LET after == IF listening[c] THEN handleClientDisconnect(Reg, clients, c)
                    ELSE [reg |-> Reg, clients |-> clients]
       IN /\ SetReg(after.reg)
          /\ clients' = after.clients
    /\ last' = [Last("clientClose", c, 0) EXCEPT !.res = IF listening[c] THEN 1 ELSE 0]
    /\ UNCHANGED <<wire, server, pingInterval, pingDue, nextClient, listening, msgHandler,
                   calls, nextAttempt>>

(* 'error' on client socket c (a protocol violation found by the ws        *)
(* receiver): ws marks the socket CLOSING, emits 'error' and destroys the  *)
(* socket, which emits 'close' later.  Before handleConnection has         *)
(* attached its listeners the 'error' event has none, and EventEmitter     *)
(* throws the error.                                                       *)
ClientError(c) ==
    /\ cws[c] = "OPEN"
    /\ cws' = [cws EXCEPT ![c] = "CLOSING"]
    /\ LET after == IF listening[c] THEN handleClientError(Reg, clients, c)
                    ELSE [reg |-> Reg, clients |-> clients]
       IN /\ SetReg([after.reg EXCEPT !.uws = uws])
          /\ clients' = after.clients
    /\ last' = [Last("clientError", c, 0) EXCEPT
                  !.res = IF listening[c] THEN 1 ELSE 0,
                  !.fault = IF listening[c] THEN "none" ELSE "unhandledErrorEvent"]
    /\ UNCHANGED <<wire, server, pingInterval, pingDue, nextClient, listening, msgHandler,
                   calls, nextAttempt>>

(* 'pong' on client socket c: this.clients.get(clientId).lastPong = now.   *)
(* With the record gone the assignment throws a TypeError in the listener. *)
ClientPong(c) ==
    /\ cws[c] \in {"OPEN", "CLOSING"}
    /\ listening[c]
    /\ IF c \in DOMAIN clients
       THEN /\ clients' = [clients EXCEPT ![c].age = 0]
            /\ last' = Last("clientPong", c, 0)
       ELSE /\ clients' = clients
            /\ last' = [Last("clientPong", c, 0) EXCEPT !.fault = "uncaughtException"]
    /\ UNCHANGED <<wire, server, pingInterval, pingDue, nextClient, cws, listening, sessions,
                   clientToSession, connections, uws, msgHandler, calls, nextAttempt>>

(* 30 s pass.  Not before a due liveness check has run, and not while a    *)
(* handshake has already outlived its 10 s timer.                          *)
Tick ==
    /\ ~pingDue
    /\ \A k \in DOMAIN calls : calls[k].status = "pending" => calls[k].ticks < ConnectTimeoutTicks
    /\ clients' = [c \in DOMAIN clients |->
                     [clients[c] EXCEPT !.age = IF @ < AgeCap THEN @ + 1 ELSE @]]
    /\ calls' = [k \in DOMAIN calls |->
                   IF calls[k].status = "pending"
                   THEN [calls[k] EXCEPT !.ticks = @ + 1] ELSE calls[k]]
    /\ pingDue' = pingInterval
    /\ last' = Last("tick", 0, 0)
    /\ UNCHANGED <<wire, server, pingInterval, nextClient, cws, listening, sessions,
                   clientToSession, connections, uws, msgHandler, nextAttempt>>

(* Faulty variant of expired: a record is stale as soon as its last pong   *)
(* is two periods old.                                                     *)
expiredAtGrace(age) == age >= GraceIntervals

(* Whether the liveness check evicts client c. *)
expired(age) == age > GraceIntervals

evicts(c) ==
    IF cws[c] = "OPEN" THEN expired(clients[c].age)
    ELSE cws[c] # "CONNECTING"

(* The setInterval callback of startPingInterval. *)
PingCheckRun ==
    /\ pingInterval /\ pingDue
    /\ pingDue' = FALSE
    /\ LET ev == {c \in DOMAIN clients : evicts(c)} IN
        /\ SetReg(closeAll(Reg, ev))
        /\ clients' = [c \in DOMAIN clients \ ev |-> clients[c]]
        /\ last' = [Last("pingCheck", 0, 0) EXCEPT
                      !.pinged = {c \in DOMAIN clients : cws[c] = "OPEN"},
                      !.evicted = ev]
    /\ UNCHANGED <<server, pingInterval, nextClient, cws, listening, msgHandler,
                   calls, nextAttempt>>

PingCheck == PingCheckRun /\ UNCHANGED wire

(* The liveness check, the pings it wrote kept in the wire history.        *)
PingCheckOnWire ==
    /\ PingCheckRun
    /\ wire' = [wire EXCEPT !.probes = @ \cup last'.pinged]

(* A client answers the ping it was sent.  The 'pong' event runs the       *)
(* listener of handleConnection once that is attached; during the accept   *)
(* it has no listener and the answer is lost.                              *)
PongOnWire(c) ==
    /\ c \in wire.probes
    /\ cws[c] = "OPEN"
    /\ wire' = [wire EXCEPT !.probes = @ \ {c}]
    /\ IF listening[c]
       THEN /\ IF c \in DOMAIN clients
               THEN /\ clients' = [clients EXCEPT ![c].age = 0]
                    /\ last' = [Last("clientPong", c, 0) EXCEPT !.res = 1]
               ELSE /\ clients' = clients
                    /\ last' = [Last("clientPong", c, 0) EXCEPT
                                  !.fault = "uncaughtException"]
       ELSE /\ clients' = clients
            /\ last' = Last("clientPong", c, 0)
    /\ UNCHANGED <<server, pingInterval, pingDue, nextClient, cws, listening, sessions,
                   clientToSession, connections, uws, msgHandler, calls, nextAttempt>>

(* 30 s pass, every client whose socket is open having answered its ping.  *)
TickAnswered ==
    /\ \A c \in wire.probes : cws[c] # "OPEN"
    /\ Tick

(* wsServer.close(), called by shutdown() of app.js. *)
closeServer(R, cl) ==
    [reg |-> closeAll(R, DOMAIN cl), clients |-> EmptyMap]

Shutdown ==
    /\ server = "running"
    /\ server' = "closed"
    /\ pingInterval' = FALSE
    /\ pingDue' = FALSE
    /\ LET after == closeServer(Reg, clients) IN
        /\ SetReg(after.reg)
        /\ clients' = after.clients
    /\ cws' = [c \in ClientIds |-> IF c \in DOMAIN clients THEN WsClose(cws[c]) ELSE cws[c]]
    /\ last' = Last("shutdown", 0, 0)
    /\ UNCHANGED <<wire, nextClient, listening, msgHandler, calls, nextAttempt>>

-----------------------------------------------------------------------------
(* Client frames and upstream frames.                                      *)
(* A raw frame is text: syntax says what JSON.parse makes of it.           *)
(*   "malformed": JSON.parse throws;  "null": the value null;              *)
(*   "scalar": a number, string, boolean or array (property reads give     *)
(*   undefined);  "object": an event with the fields below.                *)
(* event_id 0 and audio "" stand for an absent field.                      *)

RecognizedTypes ==
    {"session.update", "input_audio_buffer.append", "input_audio_buffer.commit",
     "input_audio_buffer.clear", "response.create", "response.cancel",
     "conversation.item.create", "conversation.item.delete"}

Raw(syntax, type, eventId, audio) ==
    [syntax |-> syntax, type |-> type, event_id |-> eventId, audio |-> audio, ref |-> 0]

(* `evt_${Date.now()}_${uuidv4().slice(0, 8)}`: an identifier no client supplied. *)
GeneratedEventId == -1

isRecognized(message) == message.syntax = "object" /\ message.type \in RecognizedTypes

(* openaiService.sendEvent on a registered connection: the event with its  *)
(* identifier assigned, written when the socket is OPEN.                   *)
withEventId(event) ==
    IF event.event_id = 0 THEN [event EXCEPT !.event_id = GeneratedEventId] ELSE event

(* Outcome of sendEvent(connectionId, event): ok = FALSE when it threw    *)
(* (unknown connection, or ws.send on a CONNECTING socket) and err the     *)
(* error thrown, up what it wrote upstream, id what it returned, event the *)
(* caller's event object afterwards (sendEvent assigns event_id in place). *)
sendEvent(connectionId, event) ==
    IF connectionId \notin DOMAIN connections
    THEN [ok |-> FALSE, err |-> "connection_not_found", up |-> <<>>, id |-> 0,
          event |-> event]
    ELSE IF uws[connectionId] = "CONNECTING"
    THEN [ok |-> FALSE, err |-> "send_failed", up |-> <<>>, id |-> 0,
          event |-> withEventId(event)]
    ELSE [ok |-> TRUE, err |-> "", event |-> withEventId(event),
          up |-> IF uws[connectionId] = "OPEN"
                 THEN <<[conn |-> connectionId, event |-> withEventId(event)]>>
                 ELSE <<>>,
          id |-> withEventId(event).event_id]

(* Faulty variant of sendToOpenAI: an unknown session is not reported, the *)
(* call returns without sending.                                           *)
sendToOpenAISilent(sessionId, event) ==
    IF sessionId \notin DOMAIN sessions
    THEN [ok |-> TRUE, err |-> "", up |-> <<>>, id |-> 0, event |-> event]
    ELSE sendEvent(sessions[sessionId].openaiConnectionId, event)

sendToOpenAI(sessionId, event) ==
    IF sessionId \notin DOMAIN sessions
    THEN [ok |-> FALSE, err |-> "session_not_found", up |-> <<>>, id |-> 0,
          event |-> event]
    ELSE sendEvent(sessions[sessionId].openaiConnectionId, event)

(* The frame the message listener sends after every client frame.          *)
ListenerFrame ==
    [type |-> "message", code |-> "no_code_here", event_id |-> 0,
     clientId |-> 0, body |-> NoBody]

listenerEcho(c) == Send(c, "messageListener", ListenerFrame)

(* Faulty variant of dispatch: the catch block only logs the exception.    *)
dispatchOnlyLogs(c, message) ==
    LET sid == getClientSession(c)
        none == [sync |-> <<>>, async |-> <<>>, up |-> <<>>, err |-> "", fault |-> "none"]
    IN IF sid = 0 THEN none
       ELSE IF message.syntax = "null"
       THEN [none EXCEPT !.err = "type_error"]
       ELSE IF isRecognized(message)
       THEN LET r == sendToOpenAI(sid, message) IN
            IF r.ok THEN [none EXCEPT !.up = r.up]
            ELSE [none EXCEPT !.err = r.err]
       ELSE none

(* wsHandler.handleClientMessage(clientId, message) for a parsed message:  *)
(* [sync, async, up, err, fault]: frames sent before it first suspends,    *)
(* frames sent by its continuation, events written upstream, the exception *)
(* its catch block caught, fault raised.                                   *)
dispatch(c, message) ==
    LET sid == getClientSession(c)
        none == [sync |-> <<>>, async |-> <<>>, up |-> <<>>, err |-> "", fault |-> "none"]
    IN IF sid = 0 THEN none
       ELSE IF message.syntax = "null"
       THEN \* message.type throws; the catch block reads message.event_id
            IF cws[sessions[sid].clientId] = "OPEN"
            THEN [none EXCEPT !.err = "type_error", !.fault = "unhandledRejection"]
            ELSE [none EXCEPT !.err = "type_error"]
       ELSE IF isRecognized(message)
       THEN LET r == sendToOpenAI(sid, message) IN
            IF r.ok THEN [none EXCEPT !.up = r.up]
            ELSE [none EXCEPT !.err = r.err, !.async =
                     Send(sessions[sid].clientId, "dispatchError",
                          ErrorFrame("internal_error", r.event.event_id))]
       ELSE none

(* wsServer.handleClientMessage(clientId, data). *)
handleClientMessage(c, raw) ==
    IF raw.syntax = "malformed"
    THEN [sync |-> IF c \in DOMAIN clients
                   THEN Send(c, "parseError", ErrorFrame("invalid_message_format", 0))
                   ELSE <<>>,
          async |-> <<>>, up |-> <<>>, err |-> "syntax_error", fault |-> "none"]
    ELSE dispatch(c, raw)

(* ws.send on an upstream socket: the events go out behind those already  *)
(* written.                                                                *)
socketWriteReordered(log, entries) == entries \o log

socketWrite(log, entries) == log \o entries

(* The wire history after client c delivered its next frame and the events *)
(* up were written during the run of the message listener.                 *)
wireAfter(c, up) ==
    LET n == wire.delivered[c] + 1 IN
    [delivered |-> [wire.delivered EXCEPT ![c] = n],
     probes |-> wire.probes,
     written |-> [k \in AttemptIds |->
        socketWrite(wire.written[k],
                    IF Len(up) > 0 /\ up[1].conn = k
                    THEN <<[client |-> c, frame |-> n, type |-> up[1].event.type]>>
                    ELSE <<>>)]]

(* The run of the message listener of client c on frame raw: the frames    *)
(* of wsServer.handleClientMessage, the listener's own frame, and the      *)
(* frames of the dispatcher's continuation.                                *)
messageListener(c, raw) ==
    LET r == handleClientMessage(c, raw) IN
    [Last("clientMessage", c, 0) EXCEPT
        !.out = r.sync \o listenerEcho(c) \o r.async,
        !.up = r.up, !.err = r.err, !.fault = r.fault, !.msg = raw]

(* 'message' on client socket c, the wire history kept. *)
ClientMessageOnWire(c, raw) ==
    /\ cws[c] \in {"OPEN", "CLOSING"}
    /\ listening[c]
    /\ wire.delivered[c] < MaxFrames
    /\ last' = messageListener(c, raw)
    /\ wire' = wireAfter(c, last'.up)
    /\ UNCHANGED <<server, pingInterval, pingDue, clients, nextClient, cws, listening,
                   sessions, clientToSession, connections, uws, msgHandler, calls,
                   nextAttempt>>

(* 'message' on client socket c. *)
ClientMessage(c, raw) ==
    /\ cws[c] \in {"OPEN", "CLOSING"}
    /\ listening[c]
    /\ last' = messageListener(c, raw)
    /\ UNCHANGED <<wire, server, pingInterval, pingDue, clients, nextClient, cws, listening,
                   sessions, clientToSession, connections, uws, msgHandler, calls,
                   nextAttempt>>

(* Upstream events: ref is the identifier inside the payload object of     *)
(* the event (session.id, conversation.id), 0 when that object is absent.  *)
UpEvent(syntax, type, ref) ==
    [syntax |-> syntax, type |-> type, event_id |-> 0, audio |-> "", ref |-> ref]

(* Faulty variant of updateSessionState: an error event resets the state. *)
updateSessionStateErrorResets(state, message) ==
    IF message.type = "session.created"
    THEN [ok |-> message.ref # 0, state |-> [state EXCEPT !.sessionId = message.ref]]
    ELSE IF message.type = "conversation.created"
    THEN [ok |-> message.ref # 0, state |-> [state EXCEPT !.conversationId = message.ref]]
    ELSE IF message.type = "error"
    THEN [ok |-> message.ref # 0, state |-> [sessionId |-> 0, conversationId |-> 0]]
    ELSE [ok |-> TRUE, state |-> state]

(* sessionManager.updateSessionState: the new state record, or "throws".   *)
updateSessionState(state, message) ==
    IF message.type = "session.created"
    THEN [ok |-> message.ref # 0, state |-> [state EXCEPT !.sessionId = message.ref]]
    ELSE IF message.type = "conversation.created"
    THEN [ok |-> message.ref # 0, state |-> [state EXCEPT !.conversationId = message.ref]]
    ELSE IF message.type = "error"
    THEN [ok |-> message.ref # 0, state |-> state]
    ELSE [ok |-> TRUE, state |-> state]

ForwardFrame(message) ==
    [type |-> message.type, code |-> "", event_id |-> 0, clientId |-> 0,
     body |-> [type |-> message.type, id |-> message.ref]]

(* sessionManager.handleOpenAIMessage(sessionId, message): [sessions, out]. *)
handleOpenAIMessage(sessionId, message) ==
    IF sessionId \notin DOMAIN sessions
    THEN [sessions |-> sessions, out |-> <<>>]
    ELSE LET session == sessions[sessionId]
             u == updateSessionState(session.state, message)
         IN IF u.ok
            THEN [sessions |-> [sessions EXCEPT ![sessionId].state = u.state],
                  out |-> Send(session.clientId, "forward", ForwardFrame(message))]
            ELSE [sessions |-> sessions, out |-> <<>>]

(* 'message' on upstream socket k, through the listener of setMessageHandler. *)
(* The closure created by createSession for attempt k carries sessionId k. *)
UpstreamMessage(k, raw) ==
    /\ k \in msgHandler
    /\ uws[k] \in {"OPEN", "CLOSING"}
    /\ LET r == IF raw.syntax \in {"malformed", "null"}
                THEN [sessions |-> sessions, out |-> <<>>]
                ELSE handleOpenAIMessage(k, raw)
       IN /\ sessions' = r.sessions
          /\ last' = [Last("upstreamMessage", 0, k) EXCEPT !.out = r.out, !.msg = raw]
    /\ UNCHANGED <<wire, server, pingInterval, pingDue, clients, nextClient, cws, listening,
                   clientToSession, connections, uws, msgHandler, calls, nextAttempt>>

(* Frames drawn by the specification of the whole server. *)
SampleClientFrames ==
    { Raw("malformed", "", 0, ""), Raw("null", "", 0, ""),
      Raw("object", "input_audio_buffer.append", 7, "AAAA"),
      Raw("object", "unknown.type", 0, "") }

SampleUpstreamFrames ==
    { UpEvent("malformed", "", 0), UpEvent("object", "session.created", 1),
      UpEvent("object", "session.created", 0),
      UpEvent("object", "response.text.delta", 0) }

-----------------------------------------------------------------------------
Next ==
    \/ HandleConnection
    \/ \E k \in AttemptIds : UpstreamOpen(k)
    \/ \E k \in AttemptIds : UpstreamConnectError(k)
    \/ \E k \in AttemptIds : ConnectTimeout(k)
    \/ \E k \in AttemptIds : UpstreamClose(k)
    \/ \E c \in ClientIds : ClientClose(c)
    \/ \E c \in ClientIds : ClientError(c)
    \/ \E c \in ClientIds : ClientPong(c)
    \/ \E c \in ClientIds, raw \in SampleClientFrames : ClientMessage(c, raw)
    \/ \E k \in AttemptIds, raw \in SampleUpstreamFrames : UpstreamMessage(k, raw)
    \/ Tick
    \/ PingCheck
    \/ Shutdown

Spec == Init /\ [][Next]_vars

-----------------------------------------------------------------------------
(* The session manager driven directly through its exported methods: any   *)
(* caller, any client identifier, calls overlapping at the handshake.      *)

InitRegistry ==
    /\ server = "closed"
    /\ pingInterval = FALSE
    /\ pingDue = FALSE
    /\ clients = EmptyMap
    /\ nextClient = 1
    /\ cws = [c \in ClientIds |-> "OPEN"]
    /\ listening = [c \in ClientIds |-> FALSE]
    /\ sessions = EmptyMap
    /\ clientToSession = EmptyMap
    /\ connections = EmptyMap
    /\ uws = [k \in AttemptIds |-> "NONE"]
    /\ msgHandler = {}
    /\ calls = EmptyMap
    /\ nextAttempt = 1
    /\ wire = NoTraffic
    /\ last = Last("init", 0, 0)

(* sessionManager.createSession(c, ws) called by an API user. *)
ApiCreateSession(c) ==
    /\ CreateSessionBegin(c, "api")
    /\ last' = IF hasSession(c)
               THEN [Last("createSession", c, 0) EXCEPT
                       !.res = IF clientToSession[c] \in DOMAIN sessions
                               THEN clientToSession[c] ELSE 0]
               ELSE Last("createSession", c, nextAttempt)
    /\ UNCHANGED <<wire, server, pingInterval, pingDue, clients, nextClient, cws, listening>>

ApiCloseSession(sessionId) ==
    /\ SetReg(closeSession(Reg, sessionId))
    /\ last' = [Last("closeSession", 0, sessionId) EXCEPT
                  !.res = IF sessionId \in DOMAIN sessions THEN 1 ELSE 0]
    /\ UNCHANGED <<wire, server, pingInterval, pingDue, clients, nextClient, cws, listening,
                   msgHandler, calls, nextAttempt>>

ApiCloseClientSessions(c) ==
    /\ SetReg(closeClientSessions(Reg, c))
    /\ last' = [Last("closeClientSessions", c, 0) EXCEPT
                  !.res = IF c \in DOMAIN clientToSession THEN 1 ELSE 0]
    /\ UNCHANGED <<wire, server, pingInterval, pingDue, clients, nextClient, cws, listening,
                   msgHandler, calls, nextAttempt>>

NextRegistry ==
    \/ \E c \in ClientIds : ApiCreateSession(c)
    \/ \E k \in AttemptIds : ApiCloseSession(k)
    \/ \E c \in ClientIds : ApiCloseClientSessions(c)
    \/ \E k \in AttemptIds : UpstreamOpen(k)
    \/ \E k \in AttemptIds : UpstreamConnectError(k)
    \/ \E k \in AttemptIds : ConnectTimeout(k)
    \/ \E k \in AttemptIds : UpstreamClose(k)

SpecRegistry == InitRegistry /\ [][NextRegistry]_vars

(* The exported methods of the connection service and of the dispatcher,   *)
(* called directly.                                                        *)

ApiCloseConnection(connectionId) ==
    /\ SetReg(closeConnection(Reg, connectionId))
    /\ last' = [Last("closeConnection", 0, connectionId) EXCEPT
                  !.res = IF connectionId \in DOMAIN connections THEN 1 ELSE 0]
    /\ UNCHANGED <<wire, server, pingInterval, pingDue, clients, nextClient, cws,
                   listening, msgHandler, calls, nextAttempt>>

(* Outcome of an awaited call: returned (1) or threw (-1) with its error;  *)
(* id is the event identifier it returned.                                 *)
Awaited(op, id, event, r) ==
    [Last(op, 0, id) EXCEPT !.res = IF r.ok THEN 1 ELSE -1, !.err = r.err,
                            !.up = r.up, !.msg = event, !.id = r.id]

ApiSendToOpenAI(sessionId, event) ==
    /\ last' = Awaited("sendToOpenAI", sessionId, event, sendToOpenAI(sessionId, event))
    /\ UNCHANGED <<wire, server, pingInterval, pingDue, clients, nextClient, cws,
                   listening, sessions, clientToSession, connections, uws, msgHandler,
                   calls, nextAttempt>>

ApiSendEvent(connectionId, event) ==
    /\ last' = Awaited("sendEvent", connectionId, event, sendEvent(connectionId, event))
    /\ UNCHANGED <<wire, server, pingInterval, pingDue, clients, nextClient, cws,
                   listening, sessions, clientToSession, connections, uws, msgHandler,
                   calls, nextAttempt>>

(* wsHandler.handleClientMessage(clientId, message) with a parsed message. *)
ApiHandleClientMessage(c, message) ==
    /\ LET r == dispatch(c, message) IN
       last' = [Last("handleClientMessage", c, 0) EXCEPT
                  !.out = r.sync \o r.async, !.up = r.up, !.err = r.err,
                  !.fault = r.fault, !.msg = message]
    /\ UNCHANGED <<wire, server, pingInterval, pingDue, clients, nextClient, cws,
                   listening, sessions, clientToSession, connections, uws, msgHandler,
                   calls, nextAttempt>>

(* Events and parsed messages drawn by the calls above. *)
SampleEvents ==
    { Raw("object", "input_audio_buffer.append", 7, "AAAA") }

SampleMessages ==
    { Raw("object", "input_audio_buffer.append", 7, "AAAA"),
      Raw("object", "response.create", 0, ""),
      Raw("object", "unknown.type", 0, "") }

NextApi ==
    \/ \E c \in ClientIds : ApiCreateSession(c)
    \/ \E k \in AttemptIds : ApiCloseSession(k)
    \/ \E k \in AttemptIds : ApiCloseConnection(k)
    \/ \E k \in AttemptIds, event \in SampleEvents : ApiSendToOpenAI(k, event)
    \/ \E k \in AttemptIds, event \in SampleEvents : ApiSendEvent(k, event)
    \/ \E c \in ClientIds, message \in SampleMessages : ApiHandleClientMessage(c, message)
    \/ \E k \in AttemptIds : UpstreamOpen(k)
    \/ \E k \in AttemptIds : UpstreamClose(k)

SpecApi == InitRegistry /\ [][NextApi]_vars

(* The server without the content of frames: accepts, handshakes, socket   *)
(* events, the liveness check and shutdown.                                *)
NextLifecycle ==
    \/ HandleConnection
    \/ \E k \in AttemptIds : UpstreamOpen(k)
    \/ \E k \in AttemptIds : UpstreamConnectError(k)
    \/ \E k \in AttemptIds : ConnectTimeout(k)
    \/ \E k \in AttemptIds : UpstreamClose(k)
    \/ \E c \in ClientIds : ClientClose(c)
    \/ \E c \in ClientIds : ClientError(c)
    \/ \E c \in ClientIds : ClientPong(c)
    \/ Tick
    \/ PingCheck
    \/ Shutdown

SpecLifecycle == Init /\ [][NextLifecycle]_vars

(* The server for as long as it runs, no shutdown requested, with what the *)
(* event loop guarantees: a timer that is due fires (the 30 s period, its  *)
(* liveness check, the 10 s timer of a handshake), and a client socket     *)
(* that is closing emits 'close'.                                          *)
NextRunning ==
    \/ HandleConnection
    \/ \E k \in AttemptIds : UpstreamOpen(k)
    \/ \E k \in AttemptIds : UpstreamConnectError(k)
    \/ \E k \in AttemptIds : ConnectTimeout(k)
    \/ \E k \in AttemptIds : UpstreamClose(k)
    \/ \E c \in ClientIds : ClientClose(c)
    \/ \E c \in ClientIds : ClientError(c)
    \/ \E c \in ClientIds : ClientPong(c)
    \/ Tick
    \/ PingCheck

FairLifecycle ==
    /\ WF_vars(Tick)
    /\ WF_vars(PingCheck)
    /\ \A k \in AttemptIds : WF_vars(ConnectTimeout(k))
    /\ \A c \in ClientIds : WF_vars(cws[c] = "CLOSING" /\ ClientClose(c))

SpecLifecycleFair == Init /\ [][NextRunning]_vars /\ FairLifecycle

(* The server with its timers and socket events, and closeSession called  *)
(* on any session identifier besides.                                      *)
NextTeardown ==
    \/ HandleConnection
    \/ \E k \in AttemptIds : UpstreamOpen(k)
    \/ \E k \in AttemptIds : UpstreamConnectError(k)
    \/ \E k \in AttemptIds : ConnectTimeout(k)
    \/ \E k \in AttemptIds : UpstreamClose(k)
    \/ \E c \in ClientIds : ClientClose(c)
    \/ \E c \in ClientIds : ClientPong(c)
    \/ \E k \in AttemptIds : ApiCloseSession(k)
    \/ Tick
    \/ PingCheck

SpecTeardown == Init /\ [][NextTeardown]_vars

(* Accepted clients and their frames, with the history of the wire kept:   *)
(* every client socket delivers up to MaxFrames frames.                    *)
NextMessaging ==
    \/ HandleConnection
    \/ \E k \in AttemptIds : UpstreamOpen(k)
    \/ \E k \in AttemptIds : UpstreamConnectError(k)
    \/ \E k \in AttemptIds : UpstreamClose(k)
    \/ \E c \in ClientIds : ClientClose(c)
    \/ \E c \in ClientIds, raw \in SampleClientFrames : ClientMessageOnWire(c, raw)

SpecMessaging == Init /\ [][NextMessaging]_vars

(* The relay between accepted clients and their upstream sockets: frames   *)
(* of every kind in both directions, without timers.                       *)
RelayClientFrames ==
    { Raw("malformed", "", 0, ""),
      Raw("object", "input_audio_buffer.append", 7, "AAAA"),
      Raw("object", "unknown.type", 0, "") }

RelayUpstreamFrames ==
    { UpEvent("malformed", "", 0),
      UpEvent("object", "session.created", 1),
      UpEvent("object", "conversation.created", 2),
      UpEvent("object", "error", 3),
      UpEvent("object", "error", 0),
      UpEvent("object", "response.text.delta", 0) }

NextRelay ==
    \/ HandleConnection
    \/ \E k \in AttemptIds : UpstreamOpen(k)
    \/ \E k \in AttemptIds : UpstreamConnectError(k)
    \/ \E k \in AttemptIds : UpstreamClose(k)
    \/ \E c \in ClientIds : ClientClose(c)
    \/ \E c \in ClientIds, raw \in RelayClientFrames : ClientMessage(c, raw)
    \/ \E k \in AttemptIds, raw \in RelayUpstreamFrames : UpstreamMessage(k, raw)

SpecRelay == Init /\ [][NextRelay]_vars

(* The server with clients that answer every ping before the next period  *)
(* ends, for as long as their socket is open.                              *)
NextResponsive ==
    \/ HandleConnection
    \/ \E k \in AttemptIds : UpstreamOpen(k)
    \/ \E k \in AttemptIds : UpstreamConnectError(k)
    \/ \E k \in AttemptIds : ConnectTimeout(k)
    \/ \E k \in AttemptIds : UpstreamClose(k)
    \/ \E c \in ClientIds : ClientClose(c)
    \/ \E c \in ClientIds : PongOnWire(c)
    \/ TickAnswered
    \/ PingCheckOnWire

SpecResponsive == Init /\ [][NextResponsive]_vars

-----------------------------------------------------------------------------
(* audioUtils: pcm16ToFloat32 and float32ToPcm16.  A Float32Array element  *)
(* is the record [neg, m, e] of the value (-1)^neg * m / 2^e, m below      *)
(* 2^24 + 1; all arithmetic stays below 2^31.                              *)

NegScale == 32768
PosScale == 32767

Int16 == -32768..32767

(* floor(r * 2^n / d) and the remainder, for r < d < 2^15 and n <= 15.     *)
DivBits(r, d, n) == [q |-> (r * 2^n) \div d, r |-> (r * 2^n) % d]

(* The least s with x * 2^s >= d, for 0 < x <= d < 2^15.                   *)
Normalize(x, d) == CHOOSE s \in 0..15 : x * 2^s >= d /\ (s = 0 \/ x * 2^(s - 1) < d)

(* Round to nearest, ties to even: q with remainder r of a division by d.  *)
RoundNearestEven(q, r, d) ==
    IF 2 * r > d THEN q + 1
    ELSE IF 2 * r = d THEN q + (q % 2)
    ELSE q

(* x / d for 0 < x <= d < 2^15 as JavaScript stores it in a Float32Array:  *)
(* the quotient, in [1, 2) after scaling by 2^s, is rounded to the 53 bits *)
(* of a double (the leading bit, 23 bits and 29 bits, the division done in *)
(* pieces of at most 15 bits), and the double is rounded to the 24 bits of *)
(* a float.                                                                *)
DivideToFloat32(x, d) ==
    LET s  == Normalize(x, d)
        a  == x * 2^s
        b1 == DivBits(a % d, d, 15)
        b2 == DivBits(b1.r, d, 8)
        hi == ((a \div d) * 2^23) + (b1.q * 2^8) + b2.q
        b3 == DivBits(b2.r, d, 15)
        b4 == DivBits(b3.r, d, 14)
        lo == RoundNearestEven((b3.q * 2^14) + b4.q, b4.r, d)
    IN [neg |-> FALSE, m |-> RoundNearestEven(hi, lo, 2^29), e |-> s + 23]

(* float32Array[i] = int16Array[i] / (int16Array[i] < 0 ? 0x8000 : 0x7fff) *)
(* A negative sample over 2^15 is exact in a float.                        *)
sampleToFloat32(x) ==
    IF x < 0 THEN [neg |-> TRUE, m |-> -x, e |-> 15]
    ELSE IF x = 0 THEN [neg |-> FALSE, m |-> 0, e |-> 0]
    ELSE DivideToFloat32(x, PosScale)

(* Math.max(-1, Math.min(1, f)) *)
clamp(f) == IF f.e < 25 /\ f.m > 2^f.e THEN [f EXCEPT !.m = 1, !.e = 0] ELSE f

(* floor(m * c / 2^e) for m <= 2^24 and c <= 2^15 (e < 12 only for m <= 1): *)
(* the product, exact in a double, is taken in two parts of m to stay      *)
(* below 2^31.                                                             *)
MulShift(m, c, e) ==
    IF e < 12 THEN (m * c) \div 2^e
    ELSE (((m \div 4096) * c) + (((m % 4096) * c) \div 4096)) \div 2^(e - 12)

(* Storing a number in an Int16Array: truncated toward zero, modulo 2^16.  *)
ToInt16(neg, magnitude) ==
    LET v == IF neg THEN -magnitude ELSE magnitude
    IN ((v + 32768) % 65536) - 32768

(* int16Array[i] = s < 0 ? s * 0x8000 : s * 0x7fff                         *)
float32ToSample(f) ==
    LET s == clamp(f)
    IN IF s.neg /\ s.m > 0 THEN ToInt16(TRUE, MulShift(s.m, NegScale, s.e))
       ELSE ToInt16(FALSE, MulShift(s.m, PosScale, s.e))

(* A call of one of the two functions: the buffer the round trip started   *)
(* from, the Float32Array and the output samples computed so far, and the  *)
(* error thrown.                                                           *)
AudioCall(op, buffer, floats, out, err) ==
    [op |-> op, buffer |-> buffer, floats |-> floats, out |-> out, err |-> err]

(* new Int16Array(buffer.buffer, buffer.byteOffset, buffer.byteLength / 2) *)
(* throws a RangeError when byteOffset is odd.  A Uint8Array argument is   *)
(* first copied by Buffer.from to an offset that is a multiple of 8.       *)
viewOffset(buffer) == IF buffer.isBuffer THEN buffer.byteOffset ELSE 0

pcm16ToFloat32(buffer) ==
    IF viewOffset(buffer) % 2 # 0
    THEN AudioCall("pcm16ToFloat32", buffer, <<>>, <<>>, "RangeError")
    ELSE AudioCall("pcm16ToFloat32", buffer,
                   [i \in DOMAIN buffer.samples |-> sampleToFloat32(buffer.samples[i])],
                   <<>>, "")

float32ToPcm16(buffer, floats) ==
    AudioCall("float32ToPcm16", buffer, floats,
              [i \in DOMAIN floats |-> float32ToSample(floats[i])], "")

(* PCM16 buffers of whole samples: the empty one, every one-sample buffer, *)
(* and longer ones over the ends and the middle of the range; as a Buffer  *)
(* at an even or an odd byteOffset of its ArrayBuffer (a slice), or as a   *)
(* Uint8Array.                                                             *)
EdgeSamples == {-32768, -1, 0, 1, 32767}

RECURSIVE SamplesOfLength(_)
SamplesOfLength(n) ==
    IF n = 0 THEN {<<>>}
    ELSE {Append(b, x) : b \in SamplesOfLength(n - 1), x \in EdgeSamples}

SampleBuffers ==
    {<<>>} \cup {<<x>> : x \in Int16}
           \cup UNION {SamplesOfLength(n) : n \in 2..MaxSamples}

InitAudio ==
    /\ server = "closed"
    /\ pingInterval = FALSE
    /\ pingDue = FALSE
    /\ clients = EmptyMap
    /\ nextClient = 1
    /\ cws = [c \in ClientIds |-> "NONE"]
    /\ listening = [c \in ClientIds |-> FALSE]
    /\ sessions = EmptyMap
    /\ clientToSession = EmptyMap
    /\ connections = EmptyMap
    /\ uws = [k \in AttemptIds |-> "NONE"]
    /\ msgHandler = {}
    /\ calls = EmptyMap
    /\ nextAttempt = 1
    /\ wire = NoTraffic
    /\ \E samples \in SampleBuffers, isBuffer \in BOOLEAN, byteOffset \in {0, 1} :
          last = AudioCall("buffer",
                           [samples |-> samples, isBuffer |-> isBuffer,
                            byteOffset |-> byteOffset],
                           <<>>, <<>>, "")

ApiPcm16ToFloat32 ==
    /\ last.op = "buffer"
    /\ last' = pcm16ToFloat32(last.buffer)
    /\ UNCHANGED <<wire, server, pingInterval, pingDue, clients, nextClient, cws,
                   listening, sessions, clientToSession, connections, uws, msgHandler,
                   calls, nextAttempt>>

ApiFloat32ToPcm16 ==
    /\ last.op = "pcm16ToFloat32"
    /\ last.err = ""
    /\ last' = float32ToPcm16(last.buffer, last.floats)
    /\ UNCHANGED <<wire, server, pingInterval, pingDue, clients, nextClient, cws,
                   listening, sessions, clientToSession, connections, uws, msgHandler,
                   calls, nextAttempt>>

NextAudio ==
    \/ ApiPcm16ToFloat32
    \/ ApiFloat32ToPcm16

SpecAudio == InitAudio /\ [][NextAudio]_vars

-----------------------------------------------------------------------------
(* Properties.                                                             *)

SessionsOf(c) == {s \in DOMAIN sessions : sessions[s].clientId = c}
ConnectionsOf(c) == {k \in DOMAIN connections : connections[k].clientId = c}

(* Client c owns nothing: no record, no session under either map, no       *)
(* registered upstream connection.                                         *)
NoEntries(c) ==
    /\ c \notin DOMAIN clients
    /\ c \notin DOMAIN clientToSession
    /\ SessionsOf(c) = {}
    /\ ConnectionsOf(c) = {}

(* NoEntries(c) in the state a step leads to. *)
NoEntriesAfter(c) ==
    /\ c \notin DOMAIN clients'
    /\ c \notin DOMAIN clientToSession'
    /\ \A s \in DOMAIN sessions' : sessions'[s].clientId # c
    /\ \A k \in DOMAIN connections' : connections'[k].clientId # c

(* C1: in every reachable state each client identifier has at most one     *)
(* Session and at most one registered upstream connection, whatever the    *)
(* interleaving of createSession, closeSession and closeClientSessions,    *)
(* overlapping createSession calls for one client included.                *)
C1_AtMostOneSessionAndConnection ==
    \A c \in ClientIds :
        /\ Cardinality(SessionsOf(c)) <= 1
        /\ Cardinality(ConnectionsOf(c)) <= 1

(* C2: createSession for a client whose Session is registered returns     *)
(* that Session, leaves its fields and both registry maps as they were and *)
(* opens no upstream connection: the connection map, and so the number of  *)
(* connections registered for the client, is unchanged.                    *)
C2_ReentryReturnsExisting ==
    [][\A c \in ClientIds :
        (/\ last'.op = "createSession"
         /\ last'.client = c
         /\ c \in DOMAIN clientToSession
         /\ clientToSession[c] \in DOMAIN sessions)
        => /\ last'.res = clientToSession[c]
           /\ sessions' = sessions
           /\ clientToSession' = clientToSession
           /\ connections' = connections
           /\ uws' = uws
           /\ calls' = calls]_vars

(* A re-entrant createSession returned the session of a client that has    *)
(* exactly one registered connection.                                      *)
C2_Witness ==
    /\ last.op = "createSession"
    /\ last.res > 0
    /\ last.res \in DOMAIN sessions
    /\ sessions[last.res].clientId = last.client
    /\ Cardinality(ConnectionsOf(last.client)) = 1

(* C3: after createConnection failed (error before open, or the 10 s       *)
(* bound), the connection map holds no record for that attempt, and none   *)
(* appears later.                                                          *)
C3_FailedAttemptNotRegistered ==
    \A k \in DOMAIN calls : calls[k].status = "failed" => k \notin DOMAIN connections

(* C4: when createSession fails because the handshake fails or times out,  *)
(* the failure reaches the caller (handleConnection runs its catch block:  *)
(* the socket is closed and unregistered, the success path never runs) and *)
(* neither registry map holds an entry for that client or session.         *)
C4_FailedCreateRegistersNothing ==
    \A k \in DOMAIN calls :
        calls[k].status = "failed" =>
            /\ k \notin DOMAIN sessions
            /\ calls[k].clientId \notin DOMAIN clientToSession
            /\ SessionsOf(calls[k].clientId) = {}
            /\ calls[k].clientId \notin DOMAIN clients
            /\ ~listening[calls[k].clientId]
            /\ cws[calls[k].clientId] # "OPEN"

(* One accept failed by the handshake timeout and one by an upstream error. *)
C4_Witness ==
    \E k1, k2 \in DOMAIN calls :
        /\ calls[k1].status = "failed" /\ uws[k1] = "CLOSED"
        /\ calls[k2].status = "failed" /\ uws[k2] = "CONNECTING"
        /\ last.res = -1

(* C5: every registered Session references a connection that is in the    *)
(* connection map and whose transport is open, until the session is        *)
(* removed.                                                                *)
C5_SessionHasLiveConnection ==
    \A s \in DOMAIN sessions :
        /\ sessions[s].openaiConnectionId \in DOMAIN connections
        /\ uws[sessions[s].openaiConnectionId] = "OPEN"

(* C6: a client whose last acknowledgment is more than the grace period    *)
(* old when the liveness check runs, or whose transport is closed then, is *)
(* evicted by that check: afterwards no map holds an entry of that client. *)
C6_StaleOrClosedClientEvicted ==
    [][last'.op = "pingCheck" =>
        \A c \in DOMAIN clients :
            (clients[c].age > GraceIntervals \/ cws[c] = "CLOSED") => NoEntriesAfter(c)]_vars

(* C7: after shutdown() the client map, both registry maps and the         *)
(* connection map are empty and the liveness timer is stopped, for good.   *)
C7_ShutdownLeavesNothing ==
    server = "closed" =>
        /\ DOMAIN clients = {}
        /\ DOMAIN sessions = {}
        /\ DOMAIN clientToSession = {}
        /\ DOMAIN connections = {}
        /\ ~pingInterval

C9_OnlyProtocolFrames ==
    \A i \in DOMAIN last.out :
        \/ last.out[i].frame.type \in {"connection.established", "error"}
        \/ last.out[i].via = "forward"

(* C10: no handler run ends in an uncaught exception or an unhandled       *)
(* promise rejection.  (An 'error' event emitted while no listener is      *)
(* attached is no handler run and is not counted here.)                    *)
C10_NoHandlerFaults == last.fault \notin {"uncaughtException", "unhandledRejection"}

-----------------------------------------------------------------------------
(* Client frames.                                                          *)

(* The payload fields of an event as they go over the wire: its type and   *)
(* its audio field.                                                        *)
Payload(event) == [type |-> event.type, audio |-> event.audio]

(* C11: for a client with a registered Session, a client event of one of   *)
(* the eight recognized types results in exactly one event written to the  *)
(* upstream connection of that session, with the same type and payload.    *)
C11_RecognizedEventForwardedOnce ==
    (/\ last.op = "clientMessage"
     /\ isRecognized(last.msg)
     /\ getClientSession(last.client) # 0)
    => /\ Len(last.up) = 1
       /\ last.up[1].conn = sessions[getClientSession(last.client)].openaiConnectionId
       /\ Payload(last.up[1].event) = Payload(last.msg)

(* C12: a client frame that is not JSON gets exactly one response frame,   *)
(* an error frame of code invalid_message_format; nothing goes upstream,   *)
(* the socket stays open, Session and client record are unchanged.         *)
C12_MalformedFrameOneError ==
    [][(/\ last'.op = "clientMessage"
        /\ last'.msg.syntax = "malformed"
        /\ cws[last'.client] = "OPEN")
       => /\ Len(last'.out) = 1
          /\ last'.out[1].to = last'.client
          /\ last'.out[1].frame = ErrorFrame("invalid_message_format", 0)
          /\ last'.up = <<>>
          /\ cws'[last'.client] = "OPEN"
          /\ sessions' = sessions
          /\ clientToSession' = clientToSession
          /\ clients' = clients]_vars

(* C13: a client event whose type is not recognized writes no event to any *)
(* upstream connection and sends the client no frame that carries an       *)
(* error (no error frame, no frame with an error code).                    *)
C13_UnknownTypeSilentlyDropped ==
    (/\ last.op = "clientMessage"
     /\ last.msg.syntax = "object"
     /\ last.msg.type \notin RecognizedTypes)
    => /\ last.up = <<>>
       /\ \A i \in DOMAIN last.out :
             /\ last.out[i].frame.type # "error"
             /\ last.out[i].frame.code = ""

(* C14: the events of one client are written to its upstream connection in *)
(* the order in which the client socket delivered them.                    *)
C14_UpstreamOrderIsDeliveryOrder ==
    \A k \in AttemptIds :
        \A i, j \in DOMAIN wire.written[k] :
            (i < j /\ wire.written[k][i].client = wire.written[k][j].client)
            => wire.written[k][i].frame < wire.written[k][j].frame

(* The first and the second frame of one client were recognized events and *)
(* both were written to its upstream connection.                           *)
C14_Witness ==
    \E k \in AttemptIds :
        /\ Len(wire.written[k]) = 2
        /\ wire.written[k][1].frame = 1
        /\ wire.written[k][2].frame = 2
        /\ last.op = "clientMessage"
        /\ Len(last.up) = 1

-----------------------------------------------------------------------------
(* Failed accepts and teardown.                                            *)

(* A createSession of handleConnection failed in the handler run recorded  *)
(* by l.                                                                   *)
AcceptFailed(l) ==
    /\ l.op \in {"upstreamConnectError", "connectTimeout"}
    /\ l.res = -1

(* C15 as stated: when an accept fails because createSession fails, the    *)
(* client is sent exactly one error frame, its socket is closed, the       *)
(* client map holds no record of it and no connection.established frame    *)
(* is sent.                                                                *)
C15_FailedAcceptOneErrorFrame ==
    AcceptFailed(last) =>
        /\ Len(last.out) = 1
        /\ last.out[1].to = last.client
        /\ last.out[1].frame.type = "error"
        /\ cws[last.client] \in {"CLOSING", "CLOSED"}
        /\ last.client \notin DOMAIN clients
        /\ ~listening[last.client]

(* C15 amended: when an accept fails because createSession fails, the      *)
(* client is sent exactly one error frame if its socket is still open and  *)
(* no frame otherwise; its socket is closed, the client map holds no       *)
(* record of it and no connection.established frame is sent.               *)
C15_FailedAcceptErrorFrameIfOpen ==
    [][AcceptFailed(last') =>
        /\ last'.out = IF cws[last'.client] = "OPEN"
                       THEN <<[to |-> last'.client, via |-> "accept",
                               frame |-> ErrorFrame("initialization_failed", 0)]>>
                       ELSE <<>>
        /\ cws'[last'.client] \in {"CLOSING", "CLOSED"}
        /\ last'.client \notin DOMAIN clients'
        /\ ~listening'[last'.client]]_vars

(* An accept failed while the client socket was open: the error frame was  *)
(* sent and the socket is closing.                                         *)
C15_Witness ==
    /\ AcceptFailed(last)
    /\ Len(last.out) = 1
    /\ last.out[1].frame.code = "initialization_failed"
    /\ cws[last.client] = "CLOSING"
    /\ last.client \notin DOMAIN clients

(* A step has closed registered session sessionId: its upstream socket is  *)
(* closing or closed and no map holds its connection, the session or its   *)
(* client's entry.                                                         *)
ClosedAfter(sessionId) ==
    LET session == sessions[sessionId] IN
    /\ uws'[session.openaiConnectionId] \in {"CLOSING", "CLOSED"}
    /\ session.openaiConnectionId \notin DOMAIN connections'
    /\ sessionId \notin DOMAIN sessions'
    /\ session.clientId \notin DOMAIN clientToSession'

C17_TeardownIdempotent ==
    /\ \A s \in AttemptIds :
          closeSession(closeSession(Reg, s), s) = closeSession(Reg, s)
    /\ \A k \in AttemptIds :
          closeConnection(closeConnection(Reg, k), k) = closeConnection(Reg, k)
    /\ \A c \in ClientIds :
          /\ closeClientSessions(closeClientSessions(Reg, c), c) = closeClientSessions(Reg, c)
          /\ LET once == handleClientDisconnect(Reg, clients, c)
             IN handleClientDisconnect(once.reg, once.clients, c) = once
    /\ LET once == closeServer(Reg, clients)
       IN closeServer(once.reg, once.clients) = once

(* The server's close has run with two clients registered, one of them     *)
(* with an established session that it closed.                             *)
C17_Witness ==
    /\ last.op = "shutdown"
    /\ \E k \in DOMAIN calls : calls[k].status = "ok" /\ uws[k] = "CLOSING"
    /\ \A c \in ClientIds : cws[c] # "NONE"
    /\ DOMAIN clients = {}
    /\ DOMAIN sessions = {}

-----------------------------------------------------------------------------
(* Upstream events and forwarding errors.                                  *)

(* C18: an upstream event received on a session's connection is sent to    *)
(* the owning client's socket exactly once and unchanged whenever the      *)
(* Session is registered and the client socket is open, whatever its type  *)
(* and fields; with the Session gone it is dropped and no frame is sent.   *)
C18_UpstreamEventForwardedOnce ==
    (last.op = "upstreamMessage" /\ last.msg.syntax = "object")
    => IF last.att \in DOMAIN sessions
       THEN cws[sessions[last.att].clientId] = "OPEN"
            => last.out = <<[to |-> sessions[last.att].clientId, via |-> "forward",
                             frame |-> ForwardFrame(last.msg)]>>
       ELSE last.out = <<>>

(* C19: when forwarding a recognized client event raises an exception, the *)
(* originating client, its socket open, receives exactly one error frame   *)
(* of code internal_error carrying the event identifier it supplied, and   *)
(* its socket and Session stay open and registered.                        *)
C19_ForwardingErrorReported ==
    [][(/\ last'.op = "handleClientMessage"
        /\ isRecognized(last'.msg)
        /\ last'.err # ""
        /\ cws[last'.client] = "OPEN")
       => /\ Len(last'.out) = 1
          /\ last'.out[1].to = last'.client
          /\ last'.out[1].frame.type = "error"
          /\ last'.out[1].frame.code = "internal_error"
          /\ last'.msg.event_id # 0 => last'.out[1].frame.event_id = last'.msg.event_id
          /\ last'.fault = "none"
          /\ cws'[last'.client] = "OPEN"
          /\ sessions' = sessions
          /\ clientToSession' = clientToSession
          /\ getClientSession(last'.client) # 0]_vars

(* The dispatcher caught "connection not found" for an event that carried  *)
(* an identifier and answered with the error frame.                        *)
C19_Witness ==
    /\ last.op = "handleClientMessage"
    /\ last.err = "connection_not_found"
    /\ last.msg.event_id = 7
    /\ Len(last.out) = 1
    /\ last.out[1].frame.event_id = 7
    /\ getClientSession(last.client) # 0

(* C20: sendToOpenAI with an unregistered session id fails with session    *)
(* not found, sendEvent with an unregistered connection id fails with      *)
(* connection not found; the error reaches the caller, nothing is written  *)
(* upstream and no map changes.                                            *)
C20_UnknownIdsRejected ==
    [][/\ (last'.op = "sendToOpenAI" /\ last'.att \notin DOMAIN sessions)
          => (last'.res = -1 /\ last'.err = "session_not_found")
       /\ (last'.op = "sendEvent" /\ last'.att \notin DOMAIN connections)
          => (last'.res = -1 /\ last'.err = "connection_not_found")
       /\ (last'.op \in {"sendToOpenAI", "sendEvent"} /\ last'.res = -1)
          => /\ last'.up = <<>>
             /\ sessions' = sessions
             /\ clientToSession' = clientToSession
             /\ connections' = connections
             /\ uws' = uws]_vars

(* sendToOpenAI was called with an unregistered session id while another   *)
(* session was registered with an open upstream socket.                    *)
C20_Witness ==
    /\ last.op = "sendToOpenAI"
    /\ last.err = "session_not_found"
    /\ last.att \notin DOMAIN sessions
    /\ \E s \in DOMAIN sessions :
          /\ sessions[s].openaiConnectionId \in DOMAIN connections
          /\ uws[sessions[s].openaiConnectionId] = "OPEN"

(* C21: sendEvent on a registered connection writes exactly one event,     *)
(* carrying the identifier the caller supplied or else a newly assigned    *)
(* one, and returns the identifier of the written event; sendToOpenAI on a *)
(* session whose connection is registered returns the same.                *)
C21_SendEventWritesOneEventReturnsItsId ==
    [][LET conn == IF last'.op = "sendEvent" THEN last'.att
                   ELSE IF last'.att \in DOMAIN sessions
                        THEN sessions[last'.att].openaiConnectionId ELSE 0
       IN (last'.op \in {"sendEvent", "sendToOpenAI"} /\ conn \in DOMAIN connections)
          => /\ last'.res = 1
             /\ Len(last'.up) = 1
             /\ last'.up[1].conn = conn
             /\ last'.up[1].event.event_id =
                   (IF last'.msg.event_id # 0 THEN last'.msg.event_id
                    ELSE GeneratedEventId)
             /\ last'.id = last'.up[1].event.event_id]_vars

(* C22: an upstream message changes session state only so: session.created *)
(* sets state.sessionId of the session it arrived for to the event's       *)
(* session id, conversation.created sets state.conversationId to the       *)
(* event's conversation id, and every other message, error included,       *)
(* leaves the state record unchanged; the registry maps keep their keys    *)
(* and every other field and session.                                      *)
C22_UpstreamMessageStateEffect ==
    [][last'.op = "upstreamMessage"
       => LET k == last'.att
              m == last'.msg
          IN /\ clientToSession' = clientToSession
             /\ connections' = connections
             /\ DOMAIN sessions' = DOMAIN sessions
             /\ \A s \in DOMAIN sessions \ {k} : sessions'[s] = sessions[s]
             /\ k \in DOMAIN sessions
                => sessions'[k] =
                     [sessions[k] EXCEPT !.state =
                        IF m.syntax = "object" /\ m.type = "session.created" /\ m.ref # 0
                        THEN [@ EXCEPT !.sessionId = m.ref]
                        ELSE IF m.syntax = "object" /\ m.type = "conversation.created"
                                /\ m.ref # 0
                        THEN [@ EXCEPT !.conversationId = m.ref]
                        ELSE @]]_vars

(* An error event arrived for a session whose state holds both identifiers *)
(* and was forwarded, the state record as it was.                          *)
C22_Witness ==
    /\ last.op = "upstreamMessage"
    /\ last.msg.type = "error"
    /\ Len(last.out) = 1
    /\ last.att \in DOMAIN sessions
    /\ sessions[last.att].state = [sessionId |-> 1, conversationId |-> 2]

(* C23: a client whose socket stays open and that answers every ping       *)
(* before the next liveness check is never evicted: a liveness check       *)
(* leaves its record, its Session and its upstream connection registered   *)
(* as they were.                                                           *)
C23_ResponsiveClientNeverEvicted ==
    [][last'.op = "pingCheck"
       => \A c \in DOMAIN clients :
            cws[c] = "OPEN"
            => /\ c \notin last'.evicted
               /\ c \in DOMAIN clients'
               /\ \A s \in SessionsOf(c) :
                     s \in DOMAIN sessions' /\ sessions'[s] = sessions[s]
               /\ c \in DOMAIN clientToSession
                  => (c \in DOMAIN clientToSession'
                      /\ clientToSession'[c] = clientToSession[c])
               /\ \A k \in ConnectionsOf(c) :
                     /\ k \in DOMAIN connections'
                     /\ connections'[k] = connections[k]
                     /\ uws'[k] = uws[k]]_vars

(* A liveness check kept a client that has an open upstream connection and *)
(* whose last recorded pong is two periods old: its answer to the previous *)
(* ping arrived during the accept and was lost.                            *)
C23_Witness ==
    /\ last.op = "pingCheck"
    /\ \E c \in last.pinged :
          /\ c \in DOMAIN clients
          /\ clients[c].age = GraceIntervals
          /\ getClientSession(c) # 0
          /\ \E k \in ConnectionsOf(c) : uws[k] = "OPEN"

(* C24: for every PCM16 buffer of whole samples, float32ToPcm16 applied to *)
(* pcm16ToFloat32 of it yields a buffer of the same length in which every  *)
(* sample differs from the input sample by at most 1.                      *)
C24_RoundTripWithinOneLsb ==
    /\ last.op = "pcm16ToFloat32" => last.err = ""
    /\ last.op = "float32ToPcm16"
       => /\ Len(last.out) = Len(last.buffer.samples)
          /\ \A i \in DOMAIN last.out :
                /\ last.out[i] - last.buffer.samples[i] <= 1
                /\ last.buffer.samples[i] - last.out[i] <= 1

(* C25: whenever a client's socket has closed, during the accept or after  *)
(* it, the client's record, Session and upstream connection are eventually *)
(* removed and stay removed.                                               *)
C25_ClosedClientEventuallyRemoved ==
    \A c \in ClientIds : (cws[c] = "CLOSED") ~> [](NoEntries(c))

(* C26: every client socket that is open and whose accept has completed    *)
(* has a client record and a registered Session.                           *)
C26_OpenAcceptedClientHasSession ==
    \A c \in ClientIds :
        (cws[c] = "OPEN" /\ listening[c])
        => (c \in DOMAIN clients /\ getClientSession(c) # 0)

(* C27: clientToSession maps c to s exactly when sessions holds s with     *)
(* owning client c.                                                        *)
C27_RegistryMapsConsistent ==
    /\ \A c \in DOMAIN clientToSession :
          /\ clientToSession[c] \in DOMAIN sessions
          /\ sessions[clientToSession[c]].clientId = c
    /\ \A s \in DOMAIN sessions :
          /\ sessions[s].clientId \in DOMAIN clientToSession
          /\ clientToSession[sessions[s].clientId] = s

(* C28: events are never relayed across sessions.  What the server writes  *)
(* upstream for a frame of client A goes to the connection owned by A's    *)
(* Session, every frame it answers with goes to A, and an event received   *)
(* on an upstream connection is sent only to the client whose Session owns *)
(* that connection.                                                        *)
C28_NoCrossSessionRelay ==
    [][/\ last'.op = "clientMessage"
          => /\ \A i \in DOMAIN last'.up :
                   /\ last'.up[i].conn \in ConnectionsOf(last'.client)
                   /\ \E s \in SessionsOf(last'.client) :
                         /\ sessions[s].openaiConnectionId = last'.up[i].conn
                         /\ clientToSession[last'.client] = s
             /\ \A j \in DOMAIN last'.out : last'.out[j].to = last'.client
       /\ last'.op = "upstreamMessage"
          => \A j \in DOMAIN last'.out :
                /\ \E t \in SessionsOf(last'.out[j].to) :
                      sessions[t].openaiConnectionId = last'.att
                /\ last'.att \in DOMAIN connections
                   => connections[last'.att].clientId = last'.out[j].to]_vars

(* A frame of one client was forwarded upstream while another client had   *)
(* an open socket and a Session with an open upstream connection.          *)
C28_Witness ==
    /\ last.op = "clientMessage"
    /\ Len(last.up) = 1
    /\ \E c \in DOMAIN clientToSession \ {last.client} :
          /\ cws[c] = "OPEN"
          /\ clientToSession[c] \in DOMAIN sessions
          /\ sessions[clientToSession[c]].openaiConnectionId \in DOMAIN connections
          /\ uws[sessions[clientToSession[c]].openaiConnectionId] = "OPEN"

(* Everything of client d is after the step as it was before it: record,   *)
(* socket, Sessions with their state, mapping, upstream connections and    *)
(* their sockets.                                                          *)
Untouched(d) ==
    /\ cws'[d] = cws[d]
    /\ d \in DOMAIN clients => (d \in DOMAIN clients' /\ clients'[d] = clients[d])
    /\ d \in DOMAIN clientToSession
       => (d \in DOMAIN clientToSession' /\ clientToSession'[d] = clientToSession[d])
    /\ \A s \in SessionsOf(d) : s \in DOMAIN sessions' /\ sessions'[s] = sessions[s]
    /\ \A k \in ConnectionsOf(d) :
          /\ k \in DOMAIN connections'
          /\ connections'[k] = connections[k]
          /\ uws'[k] = uws[k]

(* C29: closing one session, by closeSession, by the disconnect of its     *)
(* client or by the eviction of its client, leaves the record, the         *)
(* Session, the session state and the upstream connection of every other   *)
(* client unchanged and as open as they were.                              *)
C29_CloseLeavesOthersUntouched ==
    [][/\ last'.op = "clientClose"
          => \A d \in ClientIds \ {last'.client} : Untouched(d)
       /\ last'.op = "pingCheck"
          => \A d \in ClientIds \ last'.evicted : Untouched(d)
       /\ (last'.op = "closeSession" /\ last'.att \in DOMAIN sessions)
          => \A d \in ClientIds \ {sessions[last'.att].clientId} : Untouched(d)]_vars

(* The liveness check evicted one accepted client while another client     *)
(* kept its record, its Session and its open upstream connection.          *)
C29_Witness ==
    /\ last.op = "pingCheck"
    /\ \E c \in last.evicted :
          /\ listening[c]
          /\ NoEntries(c)
          /\ \E d \in DOMAIN clients \ {c} :
                /\ cws[d] = "OPEN"
                /\ d \in DOMAIN clientToSession
                /\ clientToSession[d] \in DOMAIN sessions
                /\ \E k \in ConnectionsOf(d) : uws[k] = "OPEN"

(* The accept of client c completes successfully in the step.              *)
AcceptCompletes(c) == ~listening[c] /\ listening'[c]

(* The frames of a step are in place with respect to the accepts: an       *)
(* established frame goes only to a client whose accept completes in the   *)
(* step, alone and carrying that client's identifier, and any other frame  *)
(* goes to a client whose accept completed before or, as the error frame   *)
(* of a failed accept, to one whose accept can no longer complete.         *)
FramesFollowAccept ==
    \A i \in DOMAIN last'.out :
        LET d == last'.out[i].to
            frame == last'.out[i].frame
        IN /\ frame.type = "connection.established"
              => (AcceptCompletes(d) /\ Len(last'.out) = 1 /\ frame.clientId = d)
           /\ frame.type # "connection.established"
              => \/ listening[d]
                 \/ /\ ~listening'[d]
                    /\ frame = ErrorFrame("initialization_failed", 0)
                    /\ cws'[d] # "OPEN"
                    /\ \A k \in DOMAIN calls' :
                          calls'[k].clientId = d => calls'[k].status = "failed"

(* C30: on a successful accept the connection.established frame carrying  *)
(* the client identifier is sent exactly once and is the first frame the   *)
(* server sends to that client.                                            *)
C30_EstablishedOnceAndFirst ==
    [][/\ \A c \in ClientIds :
            AcceptCompletes(c)
            => last'.out = <<[to |-> c, via |-> "accept", frame |-> EstablishedFrame(c)]>>
       /\ FramesFollowAccept]_vars

(* C30 as it holds: on a successful accept the connection.established      *)
(* frame is sent exactly once, as the first frame the server sends to that *)
(* client, if the client's socket is still open; to a client that closed   *)
(* its socket during the accept no frame is sent at all.                   *)
C30_EstablishedOnceAndFirstIfOpen ==
    [][/\ \A c \in ClientIds :
            AcceptCompletes(c)
            => last'.out = IF cws[c] = "OPEN"
                           THEN <<[to |-> c, via |-> "accept",
                                   frame |-> EstablishedFrame(c)]>>
                           ELSE <<>>
       /\ \A i \in DOMAIN last'.out : cws[last'.out[i].to] = "OPEN"
       /\ FramesFollowAccept]_vars

(* The accept of a client whose socket is open completed: the established *)
(* frame carrying its identifier is the one frame sent.                    *)
C30_Witness ==
    /\ last.op = "upstreamOpen"
    /\ last.res > 0
    /\ listening[last.client]
    /\ cws[last.client] = "OPEN"
    /\ Len(last.out) = 1
    /\ last.out[1].to = last.client
    /\ last.out[1].frame = EstablishedFrame(last.client)

====
